---- MODULE Spec2Model ----
(***************************************************************************)
(* Model of the goldiebot trading backend: the control loop of main.py     *)
(* (closure detection, adoption of manual trades, exit and entry control)  *)
(* running against a broker, the JSON state store of state_manager.py, the *)
(* Excel report sink and the Telegram notifier.                            *)
(*                                                                         *)
(* Prices are fixed-point integers in units of 1/256, so that the Gann     *)
(* ladder (sqrt(ref) + f)^2 with f a multiple of 1/16 is computed exactly  *)
(* for reference prices whose square root is a multiple of 1/16.           *)
(***************************************************************************)
EXTENDS Integers, Sequences, FiniteSets, TLC

\* ------------------------------------------------------------------ bounds
MaxTickets == 2      \* tickets the broker hands out
MaxEmits   == 2      \* log_trade calls per ticket (bounds crashes and exceptions)
MaxAdopts  == 2      \* adoptions per ticket (bounds failed queries at startup)
MaxCandle  == 2      \* completed candles the broker publishes
MaxSqrt16  == 64     \* largest sqrt(reference price) * 16 handed to the ladder

\* ------------------------------------------------------- program constants
MaxAttempts == 5     \* main.py:102  for attempt in range(5)
Tolerance256 == 2    \* main.py:67   abs(take_profit - pos.tp) > 0.01, i.e. > 2.56/256

Tickets == 1..MaxTickets

\* --------------------------------------------------------- input alphabets
RefSqrt16 == {48}                       \* sqrt(reference price) * 16
Prices    == {1936, 2304, 2704}           \* live prices
TrailDist == {100, 200, 300}                 \* current_atr * TRAILING_STOP_ATR_MULT
ManualTPs == {2705, 2900}               \* take-profit a user typed in
ManualSLs == {2504}                     \* stop-loss a user typed in

VARIABLES
    scenario,       \* the kind of environment of the run, fixed at the start
    pos,            \* broker: ticket -> position (st = none/open/closed)
    deals,          \* broker: ticket -> [indexed, profit] of the exit deal
    candle,         \* broker: timestamp of the latest candle
    fileExists,     \* trade_state.json exists
    store,          \* content of trade_state.json: str(ticket) -> record
    report,         \* TradeHistory sheet: ticket -> profits of its rows
    emitted,        \* ticket -> number of log_trade calls made for it
    winLoss,        \* ticket -> number of win/loss alerts sent
    adoptAlerts,    \* ticket -> number of adoption alerts sent
    proc,           \* "down" or "up"
    pc,             \* position of the control loop
    closed_tickets, \* main.py:93, the part not yet processed
    last_candle_timestamp, \* main.py:173 (0 is None)
    bot_positions,  \* main.py:192
    last_ticket,    \* closed ticket processed last in the current tick, or 0
    queries,        \* history queries made for last_ticket
    validAt,        \* attempt at which the broker returned both deals, or 0
    raised,         \* finalizing last_ticket raised
    current_candle_timestamp, \* main.py:188 (0 outside lines 188-196)
    exhausted,      \* tickets whose history retries ran out when last examined
    slReq,          \* ticket -> last trailing-stop evaluation [old, cand, req]
    tpAdv,          \* ticket -> last ladder advance [from, to, price, rungs]
    effects,        \* requests, notifications and log entries of the handler
                    \* that ran last (adoption, entry control, iteration boundary)
    content,        \* bytes of trade_state.json: "json", "empty" or "malformed"
    lock,           \* caller holding STATE_LOCK, or 0
    callers,        \* caller -> the state-store operation it is executing
    roundStart,     \* mapping in the file when the running operations began
    backups,        \* number of backup copies of the state file on disk
    daily,          \* daily candles handed to calculate_gann_levels
    levels,         \* what calculate_gann_levels returned for them
    activity,       \* ActivityLog sheet: the writers of its rows, in order
    sheetLock,      \* writer holding ExcelReporter.lock, or 0
    writers,        \* writer -> the reporter call it is executing
    returned        \* reporter calls that returned after a successful save

vars == <<scenario, pos, deals, candle, fileExists, store, report, emitted, winLoss,
          adoptAlerts, proc, pc, closed_tickets, last_candle_timestamp,
          bot_positions, last_ticket, queries, validAt, raised,
          current_candle_timestamp, exhausted, slReq, tpAdv, effects,
          content, lock, callers, roundStart, backups, daily, levels,
          activity, sheetLock, writers, returned>>

brokerVars == <<pos, deals, candle>>
sinkVars   == <<report, emitted, winLoss, adoptAlerts>>
tickVars   == <<last_ticket, queries, validAt, raised>>
exitVars   == <<exhausted, slReq, tpAdv>>
storeVars  == <<content, lock, callers, roundStart, backups>>
ladderVars == <<daily, levels>>
workbookVars == <<activity, sheetLock, writers, returned>>
\* one entry of effects
Effect(op, arg, val, ok) == [op |-> op, arg |-> arg, val |-> val, ok |-> ok]
loopVars   == <<closed_tickets, last_candle_timestamp, bot_positions,
               current_candle_timestamp>>

\* ------------------------------------------------------------ conversions
\* str(ticket): decimal digits, most significant first
RECURSIVE str(_)
str(n) == IF n < 10 THEN <<n>> ELSE Append(str(n \div 10), n % 10)

\* int(key): value of a digit string
RECURSIVE int(_)
int(s) == IF Len(s) = 0 THEN 0
          ELSE 10 * int(SubSeq(s, 1, Len(s) - 1)) + s[Len(s)]

\* ascending list of a set of integers
RECURSIVE SortedSeq(_)
SortedSeq(S) == IF S = {} THEN <<>>
                ELSE LET m == CHOOSE x \in S : \A y \in S : x <= y
                     IN <<m>> \o SortedSeq(S \ {m})

SeqSet(s) == {s[i] : i \in 1..Len(s)}

\* Two kinds of run are explored.  In a "faults" run the process crashes and
\* restarts, broker queries fail, finalization raises, and the market is flat.
\* In a "market" run the price moves and nothing fails but order requests.
Faulty   == scenario = "faults"
Failures == IF Faulty THEN BOOLEAN ELSE {FALSE}
LivePrices == IF Faulty THEN {2304} ELSE Prices

NoPos == [st |-> "none", magic |-> "bot", type |-> "BUY",
          sl |-> 0, tp |-> 0, price_open |-> 0]

\* ------------------------------------------------------------ state store
\* _load_state: {} when the file does not exist, is empty or does not parse
_load_state == IF fileExists /\ content = "json" THEN store ELSE <<>>

\* a save that writes a mapping holding the saved ticket alone
save_trade_state_alone(state, ticket, data) == [k \in {str(ticket)} |-> data]

\* state[str(ticket)] = data
save_trade_state(state, ticket, data) ==
    [k \in DOMAIN state \cup {str(ticket)} |->
        IF k = str(ticket) THEN data ELSE state[k]]

\* a removal that empties the mapping
clear_trade_state_all(state, ticket) == <<>>

\* del state[str(ticket)] when present
clear_trade_state(state, ticket) ==
    [k \in DOMAIN state \ {str(ticket)} |-> state[k]]

\* [int(ticket) for ticket in state.keys()]
get_all_managed_trades == SortedSeq({int(k) : k \in DOMAIN _load_state})

Managed(t) == fileExists /\ str(t) \in DOMAIN store

\* callers of the state store, and what a caller does when it runs nothing
Callers == {1, 2}

NoRecord == [entry_price |-> 0, signal |-> "none", entry_type |-> "none",
             tp_level |-> 0, sl_level |-> 0]

IdleCaller == [at |-> "idle", op |-> "none", ticket |-> 0, data |-> NoRecord,
               loaded |-> <<>>, state |-> <<>>, result |-> NoRecord]

\* state.get(str(ticket)): None when the key is absent
get_trade_state(state, ticket) ==
    IF str(ticket) \in DOMAIN state THEN state[str(ticket)] ELSE NoRecord

\* threads that call the reporter: the control loop and a logging handler
Writers == {1, 2}

\* the sheets of an empty workbook (excel_reporter.py:50-72)
EmptySheets == [TradeHistory |-> [t \in Tickets |-> <<>>], ActivityLog |-> <<>>]

IdleWriter == [at |-> "idle", op |-> "none", ticket |-> 0, all_sheets |-> EmptySheets,
               saved |-> FALSE]

NoneReturned == [log_trade |-> [t \in Tickets |-> 0], log_activity |-> 0]

\* ----------------------------------------------------------------- broker
\* TradeManager.get_open_positions: [] when the query fails
get_open_positions(magic, fail) ==
    IF fail THEN <<>>
    ELSE SortedSeq({t \in Tickets : /\ pos[t].st = "open"
                                    /\ magic \in {"any", pos[t].magic}})

\* deals of a position contain an entry and an exit deal
HistoryValid(t) == pos[t].st = "closed" /\ deals[t].indexed

\* --------------------------------------------------------------- Init
Init ==
    /\ scenario \in {"faults", "market"}
    /\ pos = [t \in Tickets |-> NoPos]
    /\ deals = [t \in Tickets |-> [indexed |-> FALSE, profit |-> 0]]
    /\ candle = 1
    /\ fileExists = FALSE
    /\ store = <<>>
    /\ report = [t \in Tickets |-> <<>>]
    /\ emitted = [t \in Tickets |-> 0]
    /\ winLoss = [t \in Tickets |-> 0]
    /\ adoptAlerts = [t \in Tickets |-> 0]
    /\ proc = "down"
    /\ pc = "off"
    /\ closed_tickets = <<>>
    /\ last_candle_timestamp = 0
    /\ bot_positions = <<>>
    /\ last_ticket = 0
    /\ queries = 0
    /\ validAt = 0
    /\ raised = FALSE
    /\ current_candle_timestamp = 0
    /\ exhausted = {}
    /\ slReq = [t \in Tickets |-> <<>>]
    /\ tpAdv = [t \in Tickets |-> <<>>]
    /\ effects = <<>>
    /\ content = "json"
    /\ lock = 0
    /\ callers = [c \in Callers |-> IdleCaller]
    /\ roundStart = <<>>
    /\ backups = 0
    /\ daily = <<>>
    /\ levels = <<>>
    /\ activity = <<>>
    /\ sheetLock = 0
    /\ writers = [w \in Writers |-> IdleWriter]
    /\ returned = NoneReturned

\* ------------------------------------------------------- the environment
ManualTP(type) == IF type = "BUY" THEN ManualTPs ELSE {1700}
ManualSL(type) == IF type = "BUY" THEN ManualSLs ELSE {2600}
ManualTypes == IF Faulty THEN {"BUY"} ELSE {"BUY", "SELL"}
\* profit of an exit deal
ExitProfits == IF Faulty THEN {-3} ELSE {4}

FreeTicket(t) == pos[t].st = "none" /\ \A u \in Tickets : u < t => pos[u].st # "none"

\* the broker's state changes between two iterations of the control loop (the
\* loop sleeps there) or while the process is down; a deal indexed during the
\* history retries is an input of ProcessClosed
BetweenTicks == pc \in {"start", "off"}

\* a user opens a position by hand (magic = 0)
ManualOpen ==
    \E t \in Tickets, type \in ManualTypes :
      \E sl \in ManualSL(type), tp \in ManualTP(type) :
        /\ BetweenTicks /\ FreeTicket(t)
        /\ pos' = [pos EXCEPT ![t] = [st |-> "open", magic |-> "manual",
                       type |-> type, sl |-> sl, tp |-> tp, price_open |-> 2304]]
        /\ UNCHANGED <<scenario, storeVars, ladderVars, workbookVars, effects, deals, candle, fileExists, store, sinkVars, proc, pc,
                       loopVars, tickVars, exitVars>>

\* a position is closed at the broker (take-profit, stop-loss or by hand);
\* its exit deal is not yet indexed in the deal history
BrokerClose ==
    \E t \in Tickets, p \in ExitProfits :
        /\ BetweenTicks /\ pos[t].st = "open"
        /\ pos' = [pos EXCEPT ![t].st = "closed"]
        /\ deals' = [deals EXCEPT ![t] = [indexed |-> FALSE, profit |-> p]]
        /\ UNCHANGED <<scenario, storeVars, ladderVars, workbookVars, effects, candle, fileExists, store, sinkVars, proc, pc,
                       loopVars, tickVars, exitVars>>

\* the broker indexes the exit deal: from now on the history query returns it
BrokerIndex ==
    \E t \in Tickets :
        /\ BetweenTicks /\ pos[t].st = "closed" /\ ~deals[t].indexed
        /\ deals' = [deals EXCEPT ![t].indexed = TRUE]
        /\ UNCHANGED <<scenario, storeVars, ladderVars, workbookVars, effects, pos, candle, fileExists, store, sinkVars, proc, pc,
                       loopVars, tickVars, exitVars>>

\* a candle completes
NewCandle ==
    /\ BetweenTicks /\ ~Faulty /\ candle < MaxCandle
    /\ candle' = candle + 1
    /\ UNCHANGED <<scenario, storeVars, ladderVars, workbookVars, effects, pos, deals, fileExists, store, sinkVars, proc, pc,
                   loopVars, tickVars, exitVars>>

\* ------------------------------------------------------ closure detection
\* the filter on the open tickets left out
ClosedTickets_all(managed, open) == managed

\* the membership test inverted
ClosedTickets_inverted(managed, open) ==
    SelectSeq(managed, LAMBDA t : t \in SeqSet(open))

\* main.py:93  tickets of the store that are not in the open-position list
ClosedTickets(managed, open) ==
    SelectSeq(managed, LAMBDA t : t \notin SeqSet(open))

\* main.py:87-96  check_for_closed_trades up to the loop over closed tickets
CheckClosed ==
    /\ proc = "up" /\ pc = "start"
    /\ \E fail \in Failures :
        LET managed == get_all_managed_trades
            closed  == ClosedTickets(managed, get_open_positions("any", fail))
        IN  /\ closed_tickets' = IF managed = <<>> THEN <<>> ELSE closed
            /\ pc' = IF closed_tickets' = <<>> THEN "sync" ELSE "closure"
    /\ UNCHANGED <<scenario, storeVars, ladderVars, workbookVars, effects, brokerVars, fileExists, store, sinkVars, proc,
                   last_candle_timestamp, bot_positions,
                   current_candle_timestamp, tickVars, exitVars>>

\* a history with an entry deal alone taken for a complete one
Attempts_entry_only(t) == IF pos[t].st = "none" THEN {0} ELSE {1}

\* main.py:102-112  attempt (1..5) at which the history query returns an
\* entry and an exit deal, 0 when none of the 5 attempts does
Attempts(t) ==
    IF pos[t].st # "closed" THEN {0}
    ELSE IF deals[t].indexed THEN {1}
    ELSE 0..MaxAttempts

\* the loop over the attempts without its break
QueriesMade_nobreak(k) == MaxAttempts

\* main.py:102-112  number of history queries made when attempt k succeeds
QueriesMade(k) == IF k = 0 THEN MaxAttempts ELSE k

\* the test of main.py:114 left out
Exhausted_unchecked(k) == FALSE

\* main.py:114  history_deals is None
Exhausted(k) == k = 0

\* main.py:122  profit = exit_deal['profit']
TradeProfit(t) == deals[t].profit

\* excel_reporter.py:138-159  log_trade: a row is appended to TradeHistory and
\* the workbook is saved; excel_reporter.py:77-99 _atomic_save prints a failed
\* save and returns, and log_trade catches every other exception, so the
\* caller cannot tell a written row (saved) from a lost one; the runs keep the
\* failing saves to the first record of the highest ticket
log_trade(rep, t, profit, saved) ==
    IF saved THEN [rep EXCEPT ![t] = Append(@, profit)] ELSE rep

\* the batch abandoned when finalizing a ticket raises
AfterRaise_abort(list) == <<>>

\* main.py:160-167  except ... continue: the closed tickets still to process
\* after finalizing the first one raised
AfterRaise(list) == Tail(list)

\* main.py:98-156  one closed ticket: history retries, trade record, alert;
\* exc is "pre" when building the record raises (nothing is logged) and
\* "post" when clear_trade_state raises (logged and alerted, not removed)
ProcessClosed ==
    /\ proc = "up" /\ pc = "closure"
    /\ LET t == Head(closed_tickets) IN
       \E k \in Attempts(t), exc \in {"none", "pre", "post"}, saved \in BOOLEAN :
        /\ exc # "none" => (Faulty /\ ~Exhausted(k))
        /\ ~saved => (Faulty /\ ~Exhausted(k) /\ exc = "none" /\ emitted[t] = 0
                        /\ t = MaxTickets)
        /\ ~Exhausted(k) /\ exc # "pre" => emitted[t] < MaxEmits
        /\ exc = "post" => emitted[t] + 1 < MaxEmits
        /\ last_ticket' = t
        /\ queries' = QueriesMade(k)
        /\ validAt' = k
        /\ raised' = (exc # "none")
        /\ deals' = [deals EXCEPT ![t].indexed = @ \/ k # 0]
        /\ exhausted' = IF Exhausted(k) THEN exhausted \cup {t} ELSE exhausted \ {t}
        /\ IF Exhausted(k) \/ exc = "pre"
           THEN UNCHANGED <<report, emitted, winLoss>>
           ELSE /\ report' = log_trade(report, t, TradeProfit(t), saved)
                /\ emitted' = [emitted EXCEPT ![t] = @ + 1]
                /\ winLoss' = [winLoss EXCEPT ![t] = @ + 1]
        /\ IF Exhausted(k) \/ exc # "none"
           THEN /\ closed_tickets' = IF exc # "none" THEN AfterRaise(closed_tickets)
                                      ELSE Tail(closed_tickets)
                /\ pc' = IF closed_tickets' = <<>> THEN "sync" ELSE "closure"
           ELSE /\ closed_tickets' = closed_tickets
                /\ pc' = "clear"
    /\ UNCHANGED <<scenario, storeVars, ladderVars, workbookVars, effects, pos, candle, fileExists, store, adoptAlerts, proc,
                   last_candle_timestamp, bot_positions,
                   current_candle_timestamp, slReq, tpAdv>>

\* main.py:158  sm.clear_trade_state(ticket), then the next closed ticket
ClearClosed ==
    /\ proc = "up" /\ pc = "clear"
    /\ store' = clear_trade_state(_load_state, Head(closed_tickets))
    /\ closed_tickets' = Tail(closed_tickets)
    /\ pc' = IF closed_tickets' = <<>> THEN "sync" ELSE "closure"
    /\ UNCHANGED <<scenario, storeVars, ladderVars, workbookVars, effects, brokerVars, fileExists, sinkVars, proc,
                   last_candle_timestamp, bot_positions,
                   current_candle_timestamp, tickVars, exitVars>>

\* ------------------------------------------------------------ price ladder
\* indicators.py:169  gann_fractions, times 16
gann_fractions == <<1, 2, 4, 8, 12, 16, 20, 24, 28, 32>>

\* daily candles handed to the ladder: the list of sqrt(basis price) * 16 of
\* each day, 0 standing for a non-positive basis price; <<>> is "no data"
DailyData == {<<>>, <<48>>, <<0, 48>>} \cup {<<r, r>> : r \in RefSqrt16}

\* indicators.py:144-185  calculate_gann_levels; <<>> is the empty dict
calculate_gann_levels(daily_data) ==
    IF Len(daily_data) < 2 THEN <<>>
    ELSE LET sqrt_ref == daily_data[Len(daily_data) - 1] IN
         IF sqrt_ref <= 0 THEN <<>>
         ELSE [buy_side |->
                 [entry |-> (sqrt_ref + gann_fractions[2]) * (sqrt_ref + gann_fractions[2]),
                  stop_loss |-> (sqrt_ref - gann_fractions[1]) * (sqrt_ref - gann_fractions[1]),
                  target |-> [i \in 1..8 |->
                     (sqrt_ref + gann_fractions[i + 2]) * (sqrt_ref + gann_fractions[i + 2])]],
               sell_side |->
                 [entry |-> (sqrt_ref - gann_fractions[2]) * (sqrt_ref - gann_fractions[2]),
                  stop_loss |-> (sqrt_ref + gann_fractions[1]) * (sqrt_ref + gann_fractions[1]),
                  target |-> [i \in 1..8 |->
                     (sqrt_ref - gann_fractions[i + 2]) * (sqrt_ref - gann_fractions[i + 2])]]]

side_key(type) == IF type = "BUY" THEN "buy_side" ELSE "sell_side"

\* main.py:65  gann_levels.get(side_key, {}).get('target_1', 0.0)
Target1OrZero(gann_levels, type) ==
    IF side_key(type) \in DOMAIN gann_levels
    THEN gann_levels[side_key(type)].target[1] ELSE 0

Abs(x) == IF x < 0 THEN -x ELSE x

\* a modify whose request carries the stop alone: the broker takes the
\* missing take-profit as 0.0 and removes it
modify_sl_tp_stop_only(P, ticket, new_sl, new_tp, ok) ==
    IF ok /\ P[ticket].st = "open"
    THEN [P EXCEPT ![ticket].sl = new_sl, ![ticket].tp = 0]
    ELSE P

\* a modify that takes effect whatever the broker answers
modify_sl_tp_always(P, ticket, new_sl, new_tp, ok) ==
    IF P[ticket].st = "open"
    THEN [P EXCEPT ![ticket].sl = new_sl, ![ticket].tp = new_tp]
    ELSE P

\* trade_manager.py:85-94  modify_sl_tp on the broker's positions
modify_sl_tp(P, ticket, new_sl, new_tp, ok) ==
    IF ok /\ P[ticket].st = "open"
    THEN [P EXCEPT ![ticket].sl = new_sl, ![ticket].tp = new_tp]
    ELSE P

\* ---------------------------------------------------------------- adoption
\* the filter on the managed tickets left out
Unmanaged_all(manual_positions, managed_tickets) == manual_positions

\* main.py:49  manual positions whose ticket is not in the store
Unmanaged(manual_positions, managed_tickets) ==
    SelectSeq(manual_positions, LAMBDA t : t \notin SeqSet(managed_tickets))

\* the comparison made without the tolerance
NeedsModify_exact(take_profit, tp) == take_profit > 0 /\ take_profit # tp

\* main.py:67  the take-profit of an adopted position has to be modified
NeedsModify(take_profit, tp) ==
    take_profit > 0 /\ Abs(take_profit - tp) > Tolerance256

\* main.py:71-74  record written for an adopted position
AdoptedRecord(p, take_profit) ==
    [entry_price |-> p.price_open, signal |-> p.type,
     entry_type |-> "Adopted/Manual", tp_level |-> take_profit,
     sl_level |-> p.sl]

\* main.py:62-81  the loop over the unmanaged manual positions; acc carries
\* the broker's positions, the store content, the adoption alerts and the
\* modify requests; an exception raised for position excAt leaves the loop
\* and is logged by the except clause of the function
RECURSIVE AdoptAll(_, _, _, _, _)
AdoptAll(list, gann_levels, okSet, excAt, acc) ==
    IF list = <<>> THEN acc
    ELSE LET t == Head(list)
             p == acc.pos[t]
             take_profit == Target1OrZero(gann_levels, p.type)
             P1 == IF NeedsModify(take_profit, p.tp)
                   THEN modify_sl_tp(acc.pos, t, p.sl, take_profit, t \in okSet)
                   ELSE acc.pos
             E1 == IF NeedsModify(take_profit, p.tp)
                   THEN Append(acc.eff, Effect("modify", t, take_profit, t \in okSet))
                   ELSE acc.eff
         IN IF t = excAt
            THEN [acc EXCEPT !.eff = Append(@, Effect("error", t, 0, FALSE))]
            ELSE AdoptAll(Tail(list), gann_levels, okSet, excAt,
                   [pos |-> P1,
                    state |-> save_trade_state(acc.state, t, AdoptedRecord(p, take_profit)),
                    alerts |-> [acc.alerts EXCEPT ![t] = @ + 1],
                    eff |-> E1])

\* main.py:41-81  sync_positions_with_state
SyncPositions ==
    /\ proc = "up" /\ pc = "sync"
    /\ \E fail \in Failures, df_daily \in DailyData :
        LET manual_positions == get_open_positions("manual", fail)
            unmanaged == Unmanaged(manual_positions, get_all_managed_trades)
        IN  IF unmanaged = <<>> \/ df_daily = <<>>
            THEN /\ effects' = <<>>
                 /\ UNCHANGED <<pos, fileExists, store, adoptAlerts>>
            ELSE \E okSet \in SUBSET SeqSet(unmanaged),
                    excAt \in IF Faulty THEN {0} \cup SeqSet(unmanaged) ELSE {0} :
                 LET r == AdoptAll(unmanaged, calculate_gann_levels(df_daily), okSet,
                             excAt,
                             [pos |-> pos, state |-> _load_state,
                              alerts |-> adoptAlerts, eff |-> <<>>])
                 IN /\ pos' = r.pos
                    /\ store' = IF r.state = _load_state THEN store ELSE r.state
                    /\ fileExists' = (fileExists \/ r.state # _load_state)
                    /\ adoptAlerts' = r.alerts
                    /\ effects' = r.eff
    /\ pc' = "market"
    /\ last_ticket' = 0
    /\ queries' = 0
    /\ validAt' = 0
    /\ raised' = FALSE
    /\ UNCHANGED <<scenario, storeVars, ladderVars, workbookVars, deals, candle, report, emitted, winLoss, proc, loopVars,
                   exitVars>>

\* --------------------------------------------------------- crash, restart
\* the process dies; everything but the files and the broker is lost
Crash ==
    /\ proc = "up" /\ Faulty
    /\ pc = "clear" => emitted[Head(closed_tickets)] < MaxEmits
    /\ proc' = "down" /\ pc' = "off"
    /\ closed_tickets' = <<>>
    /\ bot_positions' = <<>>
    /\ last_candle_timestamp' = 0
    /\ current_candle_timestamp' = 0
    /\ last_ticket' = 0
    /\ queries' = 0
    /\ validAt' = 0
    /\ raised' = FALSE
    /\ exhausted' = {}
    /\ slReq' = [t \in Tickets |-> <<>>]
    /\ tpAdv' = [t \in Tickets |-> <<>>]
    /\ effects' = <<>>
    /\ UNCHANGED <<scenario, storeVars, ladderVars, workbookVars, brokerVars, fileExists, store, sinkVars>>

\* main.py:24-35  initial_cleanup removes the state file; conn is "raise" when
\* TradeManager() raises, "fail" when the position query fails and returns []
CleanupRemoves(conn) ==
    /\ fileExists
    /\ conn # "raise"
    /\ get_open_positions("any", conn = "fail") = <<>>

\* main.py:214-227  main(): initial_cleanup, then main_loop starts
Restart ==
    /\ proc = "down"
    /\ \E conn \in {"ok", "raise", "fail"} :
        /\ conn # "ok" => Faulty
        /\ ~fileExists => conn = "ok"
        /\ conn = "fail" => \A t \in Tickets : adoptAlerts[t] < MaxAdopts
        /\ fileExists' = (fileExists /\ ~CleanupRemoves(conn))
        /\ store' = IF CleanupRemoves(conn) THEN <<>> ELSE store
    /\ proc' = "up" /\ pc' = "start"
    /\ UNCHANGED <<scenario, storeVars, ladderVars, workbookVars, effects, brokerVars, sinkVars, loopVars, tickVars, exitVars>>

\* ------------------------------------------------- market hours, new candle
\* the newness test made non-strict
IsNewCandle_same(marker, timestamp) == marker = 0 \/ timestamp >= marker

\* main.py:190  the candle is newer than the last-seen marker (0 is None)
IsNewCandle(marker, timestamp) == marker = 0 \/ timestamp > marker

\* the positions of the iteration taken from what an earlier tick left
FetchedPositions_cached(fail) == bot_positions

\* main.py:192  bot_positions = tm.get_open_positions(magic=config.MAGIC_NUMBER)
FetchedPositions(fail) == get_open_positions("bot", fail)

\* the checks of a new candle run whatever the trading hours
RunsChecks_ignore_hours(open, fetched, marker, timestamp) ==
    fetched /\ IsNewCandle(marker, timestamp)

\* main.py:180-190  the iteration goes on to exit and entry control: the
\* market is open, the candles were fetched and the latest one is new
RunsChecks(open, fetched, marker, timestamp) ==
    open /\ fetched /\ IsNewCandle(marker, timestamp)

\* main.py:180-185, 197-198  what the step logs and asks the broker: the pause
\* when the market is closed, else the candle fetch with its result
MarketEffects(open, fetched, timestamp) ==
    IF ~open THEN <<Effect("log_market_closed", 0, 0, TRUE)>>
    ELSE <<Effect("fetch_candle", 0, IF fetched THEN timestamp ELSE 0, fetched)>>

\* main.py:180-192  market-hours check, candle fetch, new-candle test and the
\* fetch of the bot-owned positions
MarketAndCandle ==
    /\ proc = "up" /\ pc = "market"
    /\ \E open \in BOOLEAN, fetched \in BOOLEAN, fail \in Failures :
        /\ current_candle_timestamp' = IF open /\ fetched THEN candle ELSE 0
        /\ effects' = MarketEffects(open, fetched, candle)
        /\ IF RunsChecks(open, fetched, last_candle_timestamp, candle)
           THEN /\ bot_positions' = FetchedPositions(fail)
                /\ pc' = IF bot_positions' # <<>> THEN "exits" ELSE "entry"
           ELSE /\ pc' = "sleep"
                /\ UNCHANGED bot_positions
    /\ UNCHANGED <<scenario, storeVars, ladderVars, workbookVars, brokerVars, fileExists, store, sinkVars, proc,
                   closed_tickets, last_candle_timestamp, tickVars, exitVars>>

\* ------------------------------------------------------------ exit control
\* risk_manager.py:126-143  candidate stop of one position, 0 when the position
\* is not in profit
NewSl(p, current_price, trailing_distance) ==
    IF p.type = "BUY"
    THEN IF current_price > p.price_open
         THEN current_price - trailing_distance ELSE 0
    ELSE IF current_price < p.price_open
         THEN current_price + trailing_distance ELSE 0

\* the comparison with the current stop made non-strict
SlBetter_loose(p, current_price, new_sl) ==
    IF p.type = "BUY"
    THEN current_price > p.price_open /\ new_sl >= p.sl
    ELSE current_price < p.price_open /\ new_sl <= p.sl

\* risk_manager.py:128-131, 138-141  the candidate is applied
SlBetter(p, current_price, new_sl) ==
    IF p.type = "BUY"
    THEN current_price > p.price_open /\ new_sl > p.sl
    ELSE current_price < p.price_open /\ new_sl < p.sl

\* risk_manager.py:118-143  the loop over the open positions; acc carries the
\* broker's positions and the modify requests
RECURSIVE TrailAll(_, _, _, _, _)
TrailAll(list, current_price, trailing_distance, okSet, acc) ==
    IF list = <<>> THEN acc
    ELSE LET t == Head(list)
             p == pos[t]
             new_sl == NewSl(p, current_price, trailing_distance)
             go == SlBetter(p, current_price, new_sl)
         IN TrailAll(Tail(list), current_price, trailing_distance, okSet,
               [pos |-> IF go THEN modify_sl_tp(acc.pos, t, new_sl, p.tp, t \in okSet)
                        ELSE acc.pos,
                req |-> IF new_sl # 0
                        THEN [acc.req EXCEPT ![t] =
                                 [old |-> p.sl, cand |-> new_sl, req |-> go]]
                        ELSE acc.req,
                eff |-> IF go
                        THEN Append(acc.eff,
                                    Effect("modify_sl", t, new_sl, t \in okSet))
                        ELSE acc.eff])

\* risk_manager.py:89-143  manage_trailing_stop
TrailStops ==
    /\ proc = "up" /\ pc = "exits"
    /\ \E fail \in Failures, fetched \in BOOLEAN :
        LET open_positions == get_open_positions("any", fail) IN
        IF open_positions = <<>> \/ ~fetched
        THEN effects' = <<>> /\ UNCHANGED <<pos, slReq>>
        ELSE \E current_price \in LivePrices, trailing_distance \in TrailDist,
                okSet \in SUBSET SeqSet(open_positions) :
             LET r == TrailAll(open_positions, current_price, trailing_distance,
                               okSet, [pos |-> pos, req |-> slReq, eff |-> <<>>])
             IN pos' = r.pos /\ slReq' = r.req /\ effects' = r.eff
    /\ pc' = "ladder"
    /\ UNCHANGED <<scenario, storeVars, ladderVars, workbookVars, deals, candle, fileExists, store, sinkVars, proc, loopVars,
                   tickVars, exhausted, tpAdv>>

\* the rungs of one side of the ladder, the "entry" level first
Rungs(gann_levels, type) ==
    IF side_key(type) \notin DOMAIN gann_levels THEN <<>>
    ELSE <<gann_levels[side_key(type)].entry>> \o gann_levels[side_key(type)].target

\* a level is strictly more favorable than another for a direction
MoreFavorable(type, a, b) == IF type = "BUY" THEN a > b ELSE a < b

\* index of next_target: the first rung strictly more favorable than the
\* current take-profit, 0 when there is none
NextTargetIndex(rungs, type, tp) ==
    LET I == {i \in 1..Len(rungs) : MoreFavorable(type, rungs[i], tp)}
    IN IF I = {} THEN 0 ELSE CHOOSE i \in I : \A j \in I : i <= j

\* trigger_level: the rung before next_target, the entry level for the first
TriggerLevel(rungs, i) == IF i = 1 THEN rungs[1] ELSE rungs[i - 1]

\* the advance made without waiting for the trigger
Crossed_immediate(type, price, trigger_level) == price # 0

\* live price has crossed the trigger level in the favorable direction
Crossed(type, price, trigger_level) ==
    /\ price # 0
    /\ IF type = "BUY" THEN price >= trigger_level ELSE price <= trigger_level

\* tp_level of a stored record is replaced
PersistTp(state, ticket, tp_level) ==
    IF str(ticket) \in DOMAIN state
    THEN [state EXCEPT ![str(ticket)].tp_level = tp_level]
    ELSE state

\* the trailing take-profit ladder over the bot-owned positions; acc carries
\* the broker's positions, the store content and the advances made
RECURSIVE LadderAll(_, _, _, _, _)
LadderAll(list, gann_levels, price, okSet, acc) ==
    IF list = <<>> THEN acc
    ELSE LET t == Head(list)
             p == acc.pos[t]
             rungs == Rungs(gann_levels, p.type)
             i == NextTargetIndex(rungs, p.type, p.tp)
             go == /\ p.st = "open" /\ i # 0
                   /\ Crossed(p.type, price, TriggerLevel(rungs, i))
                   /\ t \in okSet
         IN LadderAll(Tail(list), gann_levels, price, okSet,
               IF go
               THEN [pos |-> modify_sl_tp(acc.pos, t, p.sl, rungs[i], TRUE),
                     state |-> PersistTp(acc.state, t, rungs[i]),
                     adv |-> [acc.adv EXCEPT ![t] =
                                [from |-> p.tp, to |-> rungs[i], price |-> price,
                                 rungs |-> rungs]]]
               ELSE acc)

\* main.py:193-194  rm.manage_dynamic_exits(tm, bot_positions): ladder part
ManageDynamicExits ==
    /\ proc = "up" /\ pc = "ladder"
    /\ \E df_daily \in DailyData, price \in LivePrices,
          okSet \in SUBSET SeqSet(bot_positions) :
        LET gann_levels == calculate_gann_levels(df_daily)
            r == LadderAll(bot_positions, gann_levels, price, okSet,
                           [pos |-> pos, state |-> _load_state, adv |-> tpAdv])
        IN /\ pos' = r.pos
           /\ store' = IF r.state = _load_state THEN store ELSE r.state
           /\ tpAdv' = r.adv
    /\ pc' = "entry"
    /\ UNCHANGED <<scenario, storeVars, ladderVars, workbookVars, effects, deals, candle, fileExists, sinkVars, proc, loopVars,
                   tickVars, exhausted, slReq>>

\* ----------------------------------------------------------- entry control
\* trade_manager.py:96-112  close_trade: the broker closes the position
close_trade(P, ticket, ok) ==
    IF ok /\ P[ticket].st = "open" THEN [P EXCEPT ![ticket].st = "closed"] ELSE P

\* strategy.py:47-60  the position to close on a reversal, 0 when none
ReversalOf(open_positions, signal) ==
    IF open_positions = <<>> THEN 0
    ELSE LET current_position == pos[open_positions[1]] IN
         IF \/ current_position.type = "BUY" /\ signal = "SELL"
            \/ current_position.type = "SELL" /\ signal = "BUY"
         THEN open_positions[1] ELSE 0

\* a new trade on every BUY or SELL signal, whatever is open
WantsTrade_always(open_positions, signal) == signal \in {"BUY", "SELL"}

\* strategy.py:44-60  _execute_new_trade is called
WantsTrade(open_positions, signal) ==
    \/ open_positions = <<>> /\ signal \in {"BUY", "SELL"}
    \/ ReversalOf(open_positions, signal) # 0

\* strategy.py:90-98  position created by a filled order
NewPosition(signal, price, take_profit) ==
    [st |-> "open", magic |-> "bot", type |-> signal, sl |-> 0,
     tp |-> take_profit, price_open |-> price]

\* strategy.py:105-111  record written for an opened position
OpenedRecord(signal, price, take_profit) ==
    [entry_price |-> price, signal |-> signal, entry_type |-> "Trend Reversal",
     tp_level |-> take_profit, sl_level |-> 0]

EntryPrices == {0, 2304}

\* strategy.py:43  the log line that names the signal read from the candle
SignalLog(signal) == <<Effect("signal_" \o signal, 0, 0, TRUE)>>

\* strategy.py:64-66, 69-71, 77-79  the error logged when the new trade is
\* abandoned before any order is sent
AbortLog == <<Effect("log_abort", 0, 0, TRUE)>>

\* the new trade abandoned only for a missing price
Aborts_price_only(gann_levels, price) == price = 0

\* strategy.py:64-79  _execute_new_trade returns before sending an order: no
\* daily data or no ladder (both give the empty ladder), or the 0.0 price
Aborts(gann_levels, price) == gann_levels = <<>> \/ price = 0

\* strategy.py:63-75  the inputs _execute_new_trade asks for, in order, each
\* with its result; it asks for nothing more once one of them is missing
InputEffects(df_daily, gann_levels, price) ==
    <<Effect("fetch_daily", 0, Len(df_daily), df_daily # <<>>)>> \o
    (IF df_daily = <<>> THEN <<>>
     ELSE <<Effect("gann_levels", 0, 0, gann_levels # <<>>)>> \o
          (IF gann_levels = <<>> THEN <<>>
           ELSE <<Effect("get_current_price", 0, price, price # 0)>>))

\* the reversal without its safety delay
ReversalEffects_nodelay(c, closeOk) ==
    IF c = 0 THEN <<>> ELSE <<Effect("close", c, 0, closeOk)>>

\* strategy.py:50-53, 56-59  requests of a reversal before the new trade:
\* close_trade on the current position, then the safety delay
ReversalEffects(c, closeOk) ==
    IF c = 0 THEN <<>>
    ELSE <<Effect("close", c, 0, closeOk), Effect("delay", 0, 0, TRUE)>>

\* strategy.py:90-123  open request and what follows it: the record and the
\* alert of a filled order (ticket t), the alert of a rejected one (t = 0)
OpenEffects(signal, t, take_profit) ==
    IF t = 0
    THEN <<Effect("open_" \o signal, 0, take_profit, FALSE),
           Effect("alert_rejected", 0, 0, TRUE)>>
    ELSE <<Effect("open_" \o signal, t, take_profit, TRUE),
           Effect("save", t, take_profit, TRUE),
           Effect("alert_opened", t, 0, TRUE)>>

\* strategy.py:28-60 and 62-123  check_and_execute, _execute_new_trade
\* main.py:195-196
CheckAndExecute ==
    /\ proc = "up" /\ pc = "entry"
    /\ \E fetched \in BOOLEAN, signal \in {"BUY", "SELL", "HOLD"} :
        IF ~fetched \/ ~WantsTrade(bot_positions, signal)
        THEN /\ effects' = IF fetched THEN SignalLog(signal) ELSE <<>>
             /\ UNCHANGED <<pos, deals, fileExists, store>>
        ELSE \E closeOk \in BOOLEAN, profit \in ExitProfits, df_daily \in DailyData,
                price \in EntryPrices, t \in Tickets \cup {0} :
             LET c == ReversalOf(bot_positions, signal)
                 P1 == IF c = 0 THEN pos ELSE close_trade(pos, c, closeOk)
                 D1 == IF P1 = pos THEN deals
                       ELSE [deals EXCEPT ![c] = [indexed |-> FALSE, profit |-> profit]]
                 gann_levels == calculate_gann_levels(df_daily)
                 take_profit == Target1OrZero(gann_levels, signal)
             IN /\ t # 0 => FreeTicket(t)
                /\ deals' = D1
                /\ IF Aborts(gann_levels, price)
                   THEN /\ t = 0
                        /\ pos' = P1
                        /\ effects' = SignalLog(signal) \o
                                      ReversalEffects(c, closeOk) \o
                                      InputEffects(df_daily, gann_levels, price) \o
                                      AbortLog
                        /\ UNCHANGED <<fileExists, store>>
                   ELSE /\ effects' = SignalLog(signal) \o
                                      ReversalEffects(c, closeOk) \o
                                      InputEffects(df_daily, gann_levels, price) \o
                                      OpenEffects(signal, t, take_profit)
                        /\ IF t = 0
                           THEN /\ pos' = P1
                                /\ UNCHANGED <<fileExists, store>>
                           ELSE /\ pos' = [P1 EXCEPT ![t] =
                                              NewPosition(signal, price, take_profit)]
                                /\ store' = save_trade_state(_load_state, t,
                                               OpenedRecord(signal, price, take_profit))
                                /\ fileExists' = TRUE
    /\ last_candle_timestamp' = current_candle_timestamp
    /\ current_candle_timestamp' = 0
    /\ bot_positions' = <<>>
    /\ pc' = "sleep"
    /\ slReq' = [t \in Tickets |-> <<>>]
    /\ tpAdv' = [t \in Tickets |-> <<>>]
    /\ UNCHANGED <<scenario, storeVars, ladderVars, workbookVars, candle, sinkVars, proc, closed_tickets, tickVars,
                   exhausted>>

\* main.py:182, 200  the sleep that ends an iteration, and main.py:212, the
\* cooldown after an exception caught at the iteration boundary
Sleep ==
    /\ proc = "up" /\ pc \in {"sleep", "cooldown"}
    /\ pc' = "start"
    /\ current_candle_timestamp' = 0
    /\ effects' = <<>>
    /\ UNCHANGED <<scenario, storeVars, ladderVars, workbookVars, brokerVars, fileExists, store, sinkVars, proc,
                   closed_tickets, last_candle_timestamp, bot_positions,
                   tickVars, exitVars>>

\* the except clause without its alert
IterationBoundary_silent == <<Effect("log_critical", 0, 0, TRUE)>>

\* main.py:204-211  what the except clause of the loop does with an exception
IterationBoundary == <<Effect("log_critical", 0, 0, TRUE),
                       Effect("alert_loop_error", 0, 0, TRUE)>>

\* main.py:204-212  an exception escapes a handler of the iteration (the
\* history retries, the candle fetch, exit control or entry control) and is
\* caught by the except clause of the loop
IterationException ==
    /\ proc = "up" /\ Faulty
    /\ pc \in {"closure", "market", "exits", "ladder", "entry"}
    /\ pc' = "cooldown"
    /\ effects' = IterationBoundary
    /\ closed_tickets' = <<>>
    /\ bot_positions' = <<>>
    /\ current_candle_timestamp' = 0
    /\ last_ticket' = 0
    /\ queries' = 0
    /\ validAt' = 0
    /\ raised' = FALSE
    /\ slReq' = [t \in Tickets |-> <<>>]
    /\ tpAdv' = [t \in Tickets |-> <<>>]
    /\ UNCHANGED <<scenario, storeVars, ladderVars, workbookVars, brokerVars, fileExists, store, sinkVars, proc,
                   last_candle_timestamp, exhausted>>

\* ------------------------------------------- state store, several callers
\* records the callers save
StoreData == {[entry_price |-> 2304, signal |-> "BUY", entry_type |-> "Trend Reversal",
               tp_level |-> 2704, sl_level |-> 0],
              [entry_price |-> 2304, signal |-> "BUY", entry_type |-> "Trend Reversal",
               tp_level |-> 3136, sl_level |-> 0]}

StoreOps == {"save", "clear", "get"}

storeFrame == <<scenario, ladderVars, workbookVars, brokerVars, sinkVars, proc, pc, loopVars, tickVars,
                exitVars, effects>>

\* state_manager.py:60-61, 75-76, 85-87  a caller enters save_trade_state,
\* get_trade_state or clear_trade_state: _load_state under the lock, then the
\* change of its own copy of the mapping; get returns, and so does clear of
\* an absent ticket
LoadState(c) ==
    /\ callers[c].at = "idle" /\ lock = 0
    /\ \E op \in StoreOps, ticket \in Tickets, data \in StoreData :
        LET state == _load_state
            changed == IF op = "save" THEN save_trade_state(state, ticket, data)
                       ELSE IF op = "clear" THEN clear_trade_state(state, ticket)
                       ELSE state
            writes == op = "save" \/ (op = "clear" /\ str(ticket) \in DOMAIN state)
        IN callers' = [callers EXCEPT ![c] =
                         [at |-> IF writes THEN "loaded" ELSE "returned",
                          op |-> op, ticket |-> ticket,
                          data |-> IF op = "save" THEN data ELSE NoRecord,
                          loaded |-> state, state |-> changed,
                          result |-> IF op = "get"
                                     THEN get_trade_state(state, ticket)
                                     ELSE NoRecord]]
    /\ UNCHANGED <<storeFrame, fileExists, store, content, lock, roundStart, backups>>

\* state_manager.py:45-47  _save_state takes the lock and opens the file for
\* writing, which creates it or cuts it to zero length
OpenForWrite(c) ==
    /\ callers[c].at = "loaded" /\ lock = 0
    /\ lock' = c
    /\ fileExists' = TRUE
    /\ content' = "empty"
    /\ store' = <<>>
    /\ callers' = [callers EXCEPT ![c].at = "writing"]
    /\ UNCHANGED <<storeFrame, roundStart, backups>>

\* state_manager.py:48  json.dump writes the caller's mapping, the file is
\* closed and the lock released
DumpState(c) ==
    /\ callers[c].at = "writing" /\ lock = c
    /\ content' = "json"
    /\ store' = callers[c].state
    /\ lock' = 0
    /\ callers' = [callers EXCEPT ![c].at = "returned"]
    /\ UNCHANGED <<storeFrame, fileExists, roundStart, backups>>

\* every caller is back: the next operations start from the file as it is
NextRound ==
    /\ \A c \in Callers : callers[c].at \in {"idle", "returned"}
    /\ \E c \in Callers : callers[c].at = "returned"
    /\ callers' = [c \in Callers |-> IdleCaller]
    /\ roundStart' = _load_state
    /\ UNCHANGED <<storeFrame, fileExists, store, content, lock, backups>>

\* the process dies while operations run; a file that is open for writing
\* keeps what reached the disk: nothing, or the first part of the text
StoreCrash ==
    /\ \E c \in Callers : callers[c].at \in {"loaded", "writing"}
    /\ \E flushed \in {"empty", "malformed"} :
         content' = IF lock # 0 THEN flushed ELSE content
    /\ lock' = 0
    /\ callers' = [c \in Callers |-> IdleCaller]
    /\ roundStart' = IF lock # 0 THEN <<>> ELSE _load_state
    /\ UNCHANGED <<storeFrame, fileExists, store, backups>>

StoreInit == Init /\ scenario = "faults"

StoreNext ==
    \/ \E c \in Callers : LoadState(c)
    \/ \E c \in Callers : OpenForWrite(c)
    \/ \E c \in Callers : DumpState(c)
    \/ NextRound
    \/ StoreCrash

StoreSpec == StoreInit /\ [][StoreNext]_vars

\* ------------------------------------------------- price ladder, by itself
\* daily candles of two days: sqrt(basis price) * 16 of the previous day, from
\* a non-positive price (0) upwards, and of today
LadderData == {<<r, 48>> : r \in 0..MaxSqrt16}

ladderFrame == <<scenario, brokerVars, sinkVars, proc, pc, loopVars, tickVars,
                 exitVars, effects, fileExists, store, storeVars, workbookVars>>

\* trade_manager.py:127-149  the daily candles arrive
FetchDaily ==
    /\ daily = <<>>
    /\ daily' \in LadderData
    /\ levels' = <<>>
    /\ UNCHANGED ladderFrame

\* indicators.py:144-185  the ladder is computed from them
ComputeLadder ==
    /\ daily # <<>> /\ levels = <<>>
    /\ levels' = <<calculate_gann_levels(daily)>>
    /\ UNCHANGED <<ladderFrame, daily>>

\* the next cycle asks again
ForgetLadder ==
    /\ levels # <<>>
    /\ daily' = <<>> /\ levels' = <<>>
    /\ UNCHANGED ladderFrame

LadderInit == Init /\ scenario = "market"

LadderNext == FetchDaily \/ ComputeLadder \/ ForgetLadder

LadderSpec == LadderInit /\ [][LadderNext]_vars

\* -------------------------------------------- report sink, several writers
\* reporter calls, running or returned after a successful save, in one run
MaxCalls == 3

ReportOps == {"log_trade", "log_activity"}

reportFrame == <<scenario, brokerVars, emitted, winLoss, adoptAlerts, proc, pc, loopVars,
                 tickVars, exitVars, effects, fileExists, store, storeVars, ladderVars>>

\* f[1] + ... + f[n]
RECURSIVE SumTo(_, _)
SumTo(f, n) == IF n = 0 THEN 0 ELSE f[n] + SumTo(f, n - 1)

\* calls that have returned after a successful save
ReturnedCalls == returned.log_activity + SumTo(returned.log_trade, MaxTickets)

\* a writer enters without waiting for the lock
MayEnter_unlocked(w) == TRUE

\* excel_reporter.py:125, 140  with self.lock: the writer waits until no
\* other call holds the lock
MayEnter(w) == sheetLock = 0

\* excel_reporter.py:123-125, 138-140, 204-207  a thread calls log_trade, or
\* log_activity (by itself or through ExcelHandler.emit), and takes the lock
EnterCall(w) ==
    /\ writers[w].at = "idle" /\ MayEnter(w)
    /\ ReturnedCalls + Cardinality({v \in Writers : writers[v].at # "idle"}) < MaxCalls
    /\ \E op \in ReportOps, ticket \in Tickets :
         writers' = [writers EXCEPT ![w] =
                       [IdleWriter EXCEPT !.at = "locked", !.op = op,
                          !.ticket = IF op = "log_trade" THEN ticket ELSE 0]]
    /\ sheetLock' = w
    /\ UNCHANGED <<reportFrame, report, activity, returned>>

\* excel_reporter.py:127, 142  all_sheets = self._read_and_heal(): the sheets
\* of the workbook as it is on disk
ReadAndHeal(w) ==
    /\ writers[w].at = "locked"
    /\ writers' = [writers EXCEPT ![w].at = "read",
                      ![w].all_sheets = [TradeHistory |-> report, ActivityLog |-> activity]]
    /\ UNCHANGED <<reportFrame, report, activity, sheetLock, returned>>

\* excel_reporter.py:128-134, 151-157, 77-99  the row is concatenated to the
\* writer's copy of its sheet and _atomic_save replaces the workbook by the
\* writer's copy of all sheets; a failed save leaves the workbook as it was
AtomicSave(w) ==
    /\ writers[w].at = "read"
    /\ \E saved \in BOOLEAN :
        LET mine == writers[w].all_sheets
            all_sheets ==
               IF writers[w].op = "log_trade"
               THEN [mine EXCEPT !.TradeHistory =
                       log_trade(@, writers[w].ticket, TradeProfit(writers[w].ticket), TRUE)]
               ELSE [mine EXCEPT !.ActivityLog = Append(@, w)]
        IN /\ report' = IF saved THEN all_sheets.TradeHistory ELSE report
           /\ activity' = IF saved THEN all_sheets.ActivityLog ELSE activity
           /\ writers' = [writers EXCEPT ![w].at = "saved", ![w].saved = saved,
                                         ![w].all_sheets = all_sheets]
    /\ UNCHANGED <<reportFrame, sheetLock, returned>>

\* excel_reporter.py:125, 140  the with block ends: the lock is released (if
\* this writer holds it) and the call returns
LeaveCall(w) ==
    /\ writers[w].at = "saved"
    /\ sheetLock' = IF sheetLock = w THEN 0 ELSE sheetLock
    /\ returned' =
         IF ~writers[w].saved THEN returned
         ELSE IF writers[w].op = "log_trade"
              THEN [returned EXCEPT !.log_trade[writers[w].ticket] = @ + 1]
              ELSE [returned EXCEPT !.log_activity = @ + 1]
    /\ writers' = [writers EXCEPT ![w] = IdleWriter]
    /\ UNCHANGED <<reportFrame, report, activity>>

ReportInit == Init /\ scenario = "faults"

ReportNext ==
    \/ \E w \in Writers : EnterCall(w)
    \/ \E w \in Writers : ReadAndHeal(w)
    \/ \E w \in Writers : AtomicSave(w)
    \/ \E w \in Writers : LeaveCall(w)

ReportSpec == ReportInit /\ [][ReportNext]_vars

\* ---------------------------------------------------------- specification
LoopStep ==
    \/ CheckClosed
    \/ ProcessClosed
    \/ ClearClosed
    \/ SyncPositions
    \/ MarketAndCandle
    \/ TrailStops
    \/ ManageDynamicExits
    \/ CheckAndExecute
    \/ Sleep

Next ==
    \/ LoopStep
    \/ Restart
    \/ Crash
    \/ IterationException
    \/ ManualOpen
    \/ BrokerClose
    \/ BrokerIndex
    \/ NewCandle

Spec == Init /\ [][Next]_vars

\* The control loop under fairness: a run in which the process does not die
\* and the broker answers (a "market" run); main_loop is a while True whose
\* every iteration ends in a sleep or a continue (main.py:175-212), so an
\* enabled loop step is eventually taken.
LiveInit == Init /\ scenario = "market"

NextLive ==
    \/ LoopStep
    \/ Restart
    \/ ManualOpen
    \/ BrokerClose
    \/ BrokerIndex
    \/ NewCandle

LiveSpec == LiveInit /\ [][NextLive]_vars /\ WF_vars(LoopStep) /\ WF_vars(Restart)

\* ------------------------------------------------------- closure detection
\* the step that examines the first closed ticket and runs out of attempts
ExhaustedStep ==
    /\ pc = "closure"
    /\ last_ticket' = Head(closed_tickets)
    /\ queries' = MaxAttempts
    /\ validAt' = 0

\* the step that starts a tick (main.py:87-96)
TickStart == pc = "start" /\ pc' \in {"closure", "sync"}

\* C1: when all 5 history attempts for a closed ticket fail, the store (the
\* ticket and its record) is left unchanged, no trade record and no win/loss
\* alert is emitted, and the ticket is in the list of closed tickets that the
\* next tick examines.
C1_ExhaustedKeepsTicket ==
    [][ /\ ExhaustedStep =>
            /\ store' = store /\ fileExists' = fileExists
            /\ report' = report /\ emitted' = emitted /\ winLoss' = winLoss
        /\ TickStart =>
            \A t \in exhausted : pos[t].st = "closed" =>
                Managed(t) /\ t \in SeqSet(closed_tickets') ]_vars

\* a closed ticket whose attempts ran out in an earlier tick is still in the
\* store, has no trade record, and is about to be examined again
C1_Witness ==
    /\ pc = "closure" /\ last_ticket = 0
    /\ Head(closed_tickets) \in exhausted
    /\ pos[Head(closed_tickets)].st = "closed"
    /\ Managed(Head(closed_tickets))
    /\ emitted[Head(closed_tickets)] = 0

\* C2: a ticket leaves the state store only after a trade record was emitted
\* for it, across ticks, crashes and restarts including the startup cleanup.
C2_RemovedOnlyAfterRecord ==
    [][ \A t \in Tickets :
          (Managed(t) /\ ~Managed(t)') => Len(report'[t]) > 0 ]_vars

\* C3: each closed ticket is appended to the report at most once.
C3_LoggedAtMostOnce == \A t \in Tickets : Len(report[t]) <= 1

\* the step that examines the first closed ticket, obtains both deals at some
\* attempt and finalizes without raising
FinalizeStep ==
    /\ pc = "closure"
    /\ last_ticket' = Head(closed_tickets)
    /\ validAt' # 0
    /\ ~raised'

\* C4: when the history query returns both deals at attempt k <= 5 after k-1
\* unusable answers, exactly one trade record is emitted in that tick, its
\* profit is the exit deal's profit, exactly k queries were made (none after
\* the successful one), the ticket is then removed from the store, and no
\* ticket is queried more than 5 times in a tick.
C4_RetryThenFinalize ==
    /\ [](queries <= MaxAttempts)
    /\ []((proc = "up" /\ last_ticket # 0 /\ validAt # 0 /\ ~raised /\ pc # "clear")
            => ~Managed(last_ticket))
    /\ [][ FinalizeStep =>
            LET t == Head(closed_tickets) IN
            /\ report' \in {report, [report EXCEPT ![t] = Append(@, deals'[t].profit)]}
            /\ emitted' = [emitted EXCEPT ![t] = @ + 1]
            /\ queries' = validAt'
            /\ pc' = "clear" ]_vars

\* the history was empty four times and valid at the fifth attempt: one
\* record with the exit deal's profit, the ticket removed
C4_Witness ==
    /\ proc = "up" /\ pc \in {"closure", "sync"}
    /\ last_ticket # 0 /\ validAt = MaxAttempts /\ queries = MaxAttempts
    /\ ~raised
    /\ ~Managed(last_ticket)
    /\ report[last_ticket] = <<deals[last_ticket].profit>>

\* C5: under fairness of the control loop, a ticket of the store whose position
\* is closed and whose entry and exit deals the history returns is eventually
\* removed from the store.
C5_EventuallyRemoved ==
    \A t \in Tickets : (Managed(t) /\ HistoryValid(t)) ~> ~Managed(t)

\* a ticket whose exit deal was indexed before the tick has been finalized at
\* the first attempt and removed
C5_Witness ==
    /\ pc = "sync" /\ last_ticket # 0 /\ validAt = 1 /\ queries = 1
    /\ HistoryValid(last_ticket)
    /\ ~Managed(last_ticket)
    /\ Len(report[last_ticket]) = 1

\* ------------------------------------------------------------ exit control
\* a candidate stop is strictly more favorable than the current stop
StrictlyBetterStop(type, cand, old) ==
    IF type = "BUY" THEN cand > old ELSE cand < old

\* C6: the trailing rule requests a modify exactly when the candidate stop is
\* strictly more favorable than the current stop, and the stop of an open
\* position changes only through such a request: a long's stop never
\* decreases, a short's stop never increases.
C6_StopNeverLoosened ==
    /\ [](\A t \in Tickets : slReq[t] # <<>> =>
            (slReq[t].req <=> StrictlyBetterStop(pos[t].type, slReq[t].cand,
                                                 slReq[t].old)))
    /\ [][ \A t \in Tickets :
            (pos[t].st = "open" /\ pos'[t].st = "open") =>
              /\ pos[t].type = "BUY" => pos'[t].sl >= pos[t].sl
              /\ pos[t].type = "SELL" => pos'[t].sl <= pos[t].sl
              /\ pos'[t].sl # pos[t].sl =>
                    slReq'[t] = [old |-> pos[t].sl, cand |-> pos'[t].sl,
                                 req |-> TRUE] ]_vars

\* a position in profit whose candidate equals its stop: no modify requested,
\* the stop is unchanged
C6_Witness ==
    \E t \in Tickets :
        /\ pos[t].st = "open"
        /\ slReq[t] # <<>>
        /\ ~slReq[t].req
        /\ slReq[t].cand = slReq[t].old
        /\ pos[t].sl = slReq[t].old

\* a rung is strictly more favorable than a level for a direction
BeyondLevel(type, a, b) == IF type = "BUY" THEN a > b ELSE a < b

\* the level that has to be crossed before rung i becomes the take-profit
TriggerOf(rungs, i) == IF i = 1 THEN rungs[1] ELSE rungs[i - 1]

\* C7: the take-profit advances only to the next rung (no rung lies strictly
\* between the old and the new take-profit) and only when live price has
\* crossed the trigger level, the rung before the next target or the entry
\* reference; with rungs [100, 105, 110] and take-profit 100 the next target
\* is 105 and the advance happens exactly for prices from 100 on.
C7_LadderHysteresis ==
    /\ [](\A t \in Tickets : tpAdv[t] # <<>> =>
            LET a == tpAdv[t]
                ty == pos[t].type
            IN \E i \in 1..Len(a.rungs) :
                 /\ a.rungs[i] = a.to
                 /\ BeyondLevel(ty, a.to, a.from)
                 /\ \A j \in 1..Len(a.rungs) :
                       ~(BeyondLevel(ty, a.rungs[j], a.from) /\
                         BeyondLevel(ty, a.to, a.rungs[j]))
                 /\ IF ty = "BUY" THEN a.price >= TriggerOf(a.rungs, i)
                                  ELSE a.price <= TriggerOf(a.rungs, i))
    /\ [][ pc = "ladder" =>
            \A t \in Tickets :
              (pos[t].st = "open" /\ pos'[t].tp # pos[t].tp) =>
                 /\ tpAdv'[t] # <<>>
                 /\ tpAdv'[t].from = pos[t].tp
                 /\ tpAdv'[t].to = pos'[t].tp ]_vars
    /\ [](LET rungs == <<100, 105, 110>>
              i == NextTargetIndex(rungs, "BUY", 100)
          IN /\ i # 0 /\ rungs[i] = 105
             /\ \A price \in 90..115 :
                   Crossed("BUY", price, TriggerLevel(rungs, i)) <=> price >= 100)

\* a take-profit advanced by one rung after price reached the trigger, the new
\* level persisted in the store
C7_Witness ==
    \E t \in Tickets :
        /\ pc = "entry" /\ tpAdv[t] # <<>>
        /\ pos[t].st = "open" /\ pos[t].tp = tpAdv[t].to
        /\ Managed(t) /\ store[str(t)].tp_level = tpAdv[t].to

\* every level a ladder can hold
LadderLevels ==
    UNION {SeqSet(Rungs(calculate_gann_levels(d), type)) :
              d \in DailyData, type \in {"BUY", "SELL"}}

\* C8: the take-profit of every managed open position is a ladder rung or the
\* initial placeholder 0.
C8_TpOnRung ==
    \A t \in Tickets :
        (Managed(t) /\ pos[t].st = "open") => pos[t].tp \in LadderLevels \cup {0}

\* ---------------------------------------------------------------- adoption
\* the step that runs sync_positions_with_state
SyncStep == pc = "sync" /\ pc' = "market"

ManualOpenPos(t) == pos[t].st = "open" /\ pos[t].magic = "manual"

\* C9: after a reconciliation tick every manual open position that was absent
\* from the store has a record tagged 'Adopted/Manual'.
C9_AdoptedAfterTick ==
    [][ SyncStep =>
          \A t \in Tickets :
            (ManualOpenPos(t) /\ ~Managed(t)) =>
               /\ Managed(t)'
               /\ store'[str(t)].entry_type = "Adopted/Manual" ]_vars

\* C10: an adoption alert is sent only by the step that adopts the ticket and
\* that step sends exactly one; while the process runs and the position stays
\* open the ticket stays in the store, so no later tick sends another; in a
\* run without restarts a ticket gets at most one alert.
C10_OneAdoptionAlert ==
    /\ [][ \A t \in Tickets :
            /\ adoptAlerts'[t] # adoptAlerts[t] =>
                  /\ adoptAlerts'[t] = adoptAlerts[t] + 1
                  /\ SyncStep /\ ManualOpenPos(t) /\ ~Managed(t) /\ Managed(t)'
            /\ (SyncStep /\ ~Managed(t) /\ Managed(t)') =>
                  adoptAlerts'[t] = adoptAlerts[t] + 1
            /\ (Managed(t) /\ proc = "up" /\ proc' = "up" /\ pos'[t].st = "open") =>
                  Managed(t)' ]_vars
    /\ [](~Faulty => \A t \in Tickets : adoptAlerts[t] <= 1)

\* an adopted manual position, still open, at the reconciliation of a later
\* tick: one alert so far
C10_Witness ==
    \E t \in Tickets :
        /\ pc = "sync" /\ ManualOpenPos(t) /\ Managed(t)
        /\ store[str(t)].entry_type = "Adopted/Manual"
        /\ adoptAlerts[t] = 1

\* the take-profits of the modify requests that effects e holds for ticket t
ModifyRequests(e, t) ==
    {e[i].val : i \in {j \in 1..Len(e) : e[j].op = "modify" /\ e[j].arg = t}}

\* target_1 of one side over every ladder that can be computed
FirstRungs(type) ==
    {calculate_gann_levels(d)[side_key(type)].target[1] :
        d \in {x \in DailyData : calculate_gann_levels(x) # <<>>}}

\* C11: when a manual position is adopted, a modify to exactly target_1 of its
\* side is requested if the ladder is available (the rung V recorded for the
\* position is not 0) and V differs from the position's take-profit by more
\* than the tolerance; within the tolerance, or without a ladder, no modify is
\* requested; nothing is requested for a ticket that is not adopted.
C11_AdoptionModify ==
    [][ SyncStep =>
          \A t \in Tickets :
            IF ~Managed(t) /\ Managed(t)'
            THEN LET V == store'[str(t)].tp_level
                     differs == V > 0 /\ Abs(V - pos[t].tp) > Tolerance256
                 IN /\ V \in FirstRungs(pos[t].type) \cup {0}
                    /\ differs => ModifyRequests(effects', t) = {V}
                    /\ ~differs => ModifyRequests(effects', t) = {}
            ELSE ModifyRequests(effects', t) = {} ]_vars

\* two manual positions adopted in one tick: a modify to the rung was requested
\* and applied for the one whose take-profit was far from it, none for the
\* one within the tolerance
C11_Witness ==
    \E t, u \in Tickets :
        /\ pc = "market" /\ t # u
        /\ Managed(t) /\ Managed(u)
        /\ ModifyRequests(effects, t) = {store[str(t)].tp_level}
        /\ pos[t].tp = store[str(t)].tp_level
        /\ ModifyRequests(effects, u) = {}
        /\ store[str(u)].tp_level > 0
        /\ pos[u].tp # store[str(u)].tp_level

\* the tickets of the store
ManagedSet == {t \in Tickets : Managed(t)}

\* C12 as stated: at a tick start the tickets treated as closed are the tickets
\* of the store that are not open bot-owned positions (checked in the runs in
\* which no broker query fails).
C12_ClosedIsNotBotOwned ==
    [][ (TickStart /\ ~Faulty) =>
          SeqSet(closed_tickets') =
            {t \in ManagedSet : ~(pos[t].st = "open" /\ pos[t].magic = "bot")} ]_vars

\* C12 amended: at a tick start the tickets treated as closed are the tickets
\* of the store that are absent from the open positions of any owner; when the
\* position query fails its answer is empty and every ticket of the store is
\* treated as closed.
C12_ClosedIsNotOpen ==
    [][ TickStart =>
          \/ SeqSet(closed_tickets') = {t \in ManagedSet : pos[t].st # "open"}
          \/ Faulty /\ SeqSet(closed_tickets') = ManagedSet ]_vars

\* an adopted manual position is open and not treated as closed, while a
\* closed ticket of the store is
C12_Witness ==
    \E t, u \in Tickets :
        /\ pc = "closure" /\ ~Faulty
        /\ Managed(t) /\ ManualOpenPos(t) /\ t \notin SeqSet(closed_tickets)
        /\ Managed(u) /\ pos[u].st = "closed" /\ u \in SeqSet(closed_tickets)

\* the step in which finalizing the first closed ticket raises
RaiseStep ==
    /\ pc = "closure"
    /\ last_ticket' = Head(closed_tickets)
    /\ raised'

\* C13: when finalizing a closed ticket raises, the process keeps running, the
\* ticket stays in the store, and the loop goes on with the remaining closed
\* tickets of the batch: the batch is left for reconciliation only when no
\* closed ticket remains; at the next tick start the ticket is in the store.
C13_ExceptionContained ==
    [][ /\ RaiseStep =>
            /\ proc' = "up"
            /\ store' = store /\ fileExists' = fileExists
            /\ closed_tickets' = Tail(closed_tickets)
            /\ pc' = IF Tail(closed_tickets) = <<>> THEN "sync" ELSE "closure"
        /\ (pc \in {"closure", "clear"} /\ pc' = "sync") => closed_tickets' = <<>> ]_vars

\* finalizing a ticket raised: it is still in the store and the next closed
\* ticket of the batch is about to be processed in the same tick
C13_Witness ==
    /\ pc = "closure" /\ raised /\ last_ticket # 0
    /\ Managed(last_ticket)
    /\ closed_tickets # <<>> /\ Head(closed_tickets) # last_ticket
    /\ Managed(Head(closed_tickets))

\* the tickets for which effects e holds an entry op
EffectArgs(e, op) == {e[i].arg : i \in {j \in 1..Len(e) : e[j].op = op}}

\* C14: when adopting one manual position raises, every other unmanaged manual
\* open position of the batch is still adopted in the same tick.
C14_AdoptionContained ==
    [][ SyncStep =>
          \A x \in EffectArgs(effects', "error") :
            \A t \in Tickets \ {x} :
              (ManualOpenPos(t) /\ ~Managed(t)) => Managed(t)' ]_vars

\* ----------------------------------------------------------- entry control
\* the step that runs the entry controller
EntryStep == pc = "entry" /\ pc' = "sleep"

\* positions in effects e of the entries whose op is in ops
EffectIndex(e, ops) == {i \in 1..Len(e) : e[i].op \in ops}

OpenOps == {"open_BUY", "open_SELL"}

OppositeOpen(type) == IF type = "BUY" THEN "open_SELL" ELSE "open_BUY"

\* C15: when the entry controller issues an open while a bot-owned position is
\* open (a reversal), the open is for the opposite direction and the requests
\* are, in this order, one close of the current ticket, one safety delay and
\* one open; a close is always followed by the delay.
C15_ReversalOrder ==
    [][ (EntryStep /\ bot_positions # <<>>) =>
          LET e == effects'
              c == bot_positions[1]
              closes == EffectIndex(e, {"close"})
              delays == EffectIndex(e, {"delay"})
              opens == EffectIndex(e, OpenOps)
          IN /\ Cardinality(closes) <= 1 /\ Cardinality(opens) <= 1
             /\ \A i \in closes :
                  /\ e[i].arg = c
                  /\ Cardinality(delays) = 1
                  /\ \A j \in delays : i < j
             /\ \A k \in opens :
                  /\ e[k].op = OppositeOpen(pos[c].type)
                  /\ closes # {} /\ delays # {}
                  /\ \A i \in closes : \A j \in delays : i < j /\ j < k ]_vars

\* a LONG position reversed on a SELL signal: close accepted, delay, open
\* SHORT filled
C15_Witness ==
    /\ pc = "sleep"
    /\ \E i, j, k \in 1..Len(effects) :
         /\ i < j /\ j < k
         /\ effects[i].op = "close" /\ effects[i].ok
         /\ pos[effects[i].arg].type = "BUY" /\ pos[effects[i].arg].st = "closed"
         /\ effects[j].op = "delay"
         /\ effects[k].op = "open_SELL" /\ effects[k].ok
         /\ pos[effects[k].arg].st = "open" /\ pos[effects[k].arg].type = "SELL"

\* the signal the entry controller read, "none" when the candles could not be
\* fetched
SignalOf(e) ==
    IF e = <<>> THEN "none"
    ELSE IF e[1].op = "signal_BUY" THEN "BUY"
    ELSE IF e[1].op = "signal_SELL" THEN "SELL"
    ELSE IF e[1].op = "signal_HOLD" THEN "HOLD" ELSE "none"

OpenOf(signal) == "open_" \o signal

\* requests to the broker and writes of the state store
RequestOps == OpenOps \cup {"close", "modify", "save"}

\* the entry controller changes neither the broker nor the state store
EntryNoOp ==
    /\ EffectIndex(effects', RequestOps) = {}
    /\ pos' = pos /\ store' = store /\ fileExists' = fileExists

\* the part of the decision table for a position in the signal's direction
\* and for HOLD
NoOpRows ==
    LET signal == SignalOf(effects') IN
    /\ signal = "HOLD" => EntryNoOp
    /\ (bot_positions # <<>> /\ signal = pos[bot_positions[1]].type) => EntryNoOp

\* C16 as stated: FLAT with a BUY or SELL signal gives exactly one open request
\* in that direction; same direction or HOLD is a no-op.
C16_DecisionTable ==
    [][ EntryStep =>
          LET signal == SignalOf(effects') IN
          /\ (bot_positions = <<>> /\ signal \in {"BUY", "SELL"}) =>
                /\ Cardinality(EffectIndex(effects', {OpenOf(signal)})) = 1
                /\ EffectIndex(effects', OpenOps \ {OpenOf(signal)}) = {}
          /\ NoOpRows ]_vars

\* C16 amended: FLAT with a BUY or SELL signal gives either exactly one open
\* request in that direction, or no request at all and a logged abort (daily
\* data, ladder or price unavailable); same direction or HOLD is a no-op.
C16_DecisionTableOrAbort ==
    [][ EntryStep =>
          LET signal == SignalOf(effects')
              opens == EffectIndex(effects', {OpenOf(signal)})
              aborts == EffectIndex(effects', {"log_abort"})
          IN
          /\ (bot_positions = <<>> /\ signal \in {"BUY", "SELL"}) =>
                /\ EffectIndex(effects', OpenOps \ {OpenOf(signal)}) = {}
                /\ EffectIndex(effects', {"close", "modify"}) = {}
                /\ \/ Cardinality(opens) = 1 /\ aborts = {}
                   \/ opens = {} /\ aborts # {} /\ EntryNoOp
          /\ NoOpRows ]_vars

\* FLAT with a BUY signal: one open BUY request, filled
C16_Witness ==
    /\ pc = "sleep" /\ Len(effects) >= 2
    /\ effects[1].op = "signal_BUY"
    /\ EffectIndex(effects, {"close"}) = {}
    /\ \E i \in 2..Len(effects) :
         /\ effects[i].op = "open_BUY" /\ effects[i].ok
         /\ pos[effects[i].arg].st = "open" /\ pos[effects[i].arg].type = "BUY"

\* the entry controller sent an open request and the broker rejected it
RejectedStep ==
    /\ EntryStep
    /\ \E i \in EffectIndex(effects', OpenOps) : ~effects'[i].ok

\* what a rejection leaves behind: no record, no new position, an alert
RejectionLeavesNothing ==
    /\ store' = store /\ fileExists' = fileExists
    /\ \A t \in Tickets : pos'[t].st = "open" => pos[t].st = "open"
    /\ EffectIndex(effects', {"save"}) = {}
    /\ EffectIndex(effects', {"alert_rejected"}) # {}

\* C17: when the broker rejects an open order no record is written, an alert
\* is raised, no position is opened, and the next tick attempts the open again:
\* the candle whose signal was rejected still counts as new for the next tick.
C17_RejectedRetriedNextTick ==
    [][ RejectedStep =>
          /\ RejectionLeavesNothing
          /\ IsNewCandle(last_candle_timestamp', current_candle_timestamp) ]_vars

\* ------------------------------------------------------------ control loop
\* the step that fetches the candle, when no exception cuts it short
MarketStep == pc = "market" /\ pc' \in {"exits", "entry", "sleep"}

\* the timestamp is newer than the marker (no marker yet counts as older)
Newer(marker, timestamp) == marker = 0 \/ timestamp > marker

\* C18: a fetched candle newer than the marker sends the iteration to the entry
\* controller, through exit control when bot-owned positions are open and
\* directly otherwise; a candle that is not newer, or no candle, ends the
\* iteration without it. A run of the entry controller has a candle newer than
\* the marker and advances the marker to that candle's timestamp, and nothing
\* else moves the marker while the process runs: one run per candle.
C18_EntryOncePerCandle ==
    [][ /\ MarketStep =>
             IF current_candle_timestamp' # 0 /\
                Newer(last_candle_timestamp, current_candle_timestamp')
             THEN pc' = IF bot_positions' # <<>> THEN "exits" ELSE "entry"
             ELSE pc' = "sleep"
        /\ (pc = "exits" /\ pc' \notin {"exits", "cooldown", "off"}) => pc' = "ladder"
        /\ (pc = "ladder" /\ pc' \notin {"ladder", "cooldown", "off"}) => pc' = "entry"
        /\ (pc \in {"exits", "ladder", "entry"} /\ proc' = "up") =>
             /\ current_candle_timestamp # 0
             /\ Newer(last_candle_timestamp, current_candle_timestamp)
        /\ EntryStep => last_candle_timestamp' = current_candle_timestamp
        /\ (last_candle_timestamp' # last_candle_timestamp /\ proc' = "up") =>
             EntryStep ]_vars

\* the entry controller has run for the second candle with a bot-owned
\* position open, after having run for the first
C18_Witness ==
    /\ pc = "sleep" /\ last_candle_timestamp = 2 /\ candle = 2
    /\ effects # <<>>
    /\ \E t \in Tickets : pos[t].st = "open" /\ pos[t].magic = "bot"

\* a bot-owned position is open at the broker
BotOwnedOpen == \E t \in Tickets : pos[t].st = "open" /\ pos[t].magic = "bot"

\* C19: in every iteration that gets past reconciliation with a bot-owned
\* position open, the exit controller runs next, before the trading-hours
\* check, whether or not the market is open or a new candle has closed.
C19_ExitsEveryTick ==
    [][ (pc = "market" /\ pc' \notin {"market", "cooldown", "off"} /\ BotOwnedOpen)
          => pc' = "exits" ]_vars

\* an exception is caught by the except clause of the loop
CaughtStep == pc # "cooldown" /\ pc' = "cooldown"

\* C20: an exception raised inside an iteration leaves the process running:
\* it is logged at critical severity, then reported by an alert, the half-done
\* iteration is dropped while files and broker stay as they were, and after
\* the cooldown the loop starts a further iteration; the process stops only
\* through the external stop, never through the cooldown.
C20_ExceptionCaught ==
    [][ /\ CaughtStep =>
             /\ proc = "up" /\ proc' = "up"
             /\ \E i \in EffectIndex(effects', {"log_critical"}) :
                  \E j \in EffectIndex(effects', {"alert_loop_error"}) : i < j
             /\ closed_tickets' = <<>> /\ bot_positions' = <<>>
             /\ last_candle_timestamp' = last_candle_timestamp
             /\ pos' = pos /\ store' = store /\ fileExists' = fileExists
        /\ (pc = "cooldown" /\ pc' # "cooldown" /\ proc' = "up") =>
             /\ pc' = "start"
             /\ pos' = pos /\ store' = store
             /\ last_candle_timestamp' = last_candle_timestamp ]_vars

\* an exception was caught while a bot-owned position is open and recorded:
\* the loop is in its cooldown, logged and alerted
C20_Witness ==
    /\ pc = "cooldown" /\ proc = "up"
    /\ EffectIndex(effects, {"log_critical"}) # {}
    /\ EffectIndex(effects, {"alert_loop_error"}) # {}
    /\ BotOwnedOpen /\ store # <<>>

\* -------------------------------------------------------------- state store
\* the mapping after caller c's operation is applied to mapping m
Applied(c, m) ==
    IF callers[c].op = "save"
    THEN save_trade_state(m, callers[c].ticket, callers[c].data)
    ELSE IF callers[c].op = "clear" THEN clear_trade_state(m, callers[c].ticket)
    ELSE m

\* what caller c's operation returns when it is applied to mapping m
Returned(c, m) ==
    IF callers[c].op = "get" THEN get_trade_state(m, callers[c].ticket)
    ELSE NoRecord

\* every operation that was started has returned
AllReturned ==
    /\ lock = 0
    /\ \A c \in Callers : callers[c].at \in {"idle", "returned"}

\* C21: operations of several callers behave as some sequential execution:
\* once they have all returned, the file holds the mapping that results from
\* applying them one after the other, in one of the two orders, to the mapping
\* they started from, and every get has returned what it returns in that order.
C21_SomeSequentialOrder ==
    AllReturned =>
      \E first \in Callers :
        \E second \in Callers \ {first} :
          LET m0 == roundStart
              m1 == Applied(first, m0)
              m2 == Applied(second, m1)
          IN /\ _load_state = m2
             /\ callers[first].result = Returned(first, m0)
             /\ callers[second].result = Returned(second, m1)

\* C22: at every moment the state file, when it exists, holds a complete
\* mapping: it is never empty, truncated or partially written, whether a save
\* is in progress or the process died in the middle of one.
C22_FileAlwaysComplete == fileExists => content = "json"

\* a read of a file whose text does not parse
MalformedRead(c) ==
    /\ fileExists /\ content = "malformed"
    /\ callers[c].at = "idle" /\ callers'[c].at # "idle"

\* C23: when the file is malformed, the read yields an empty store and leaves
\* a backup copy of the malformed file on disk.
C23_BackupOnCorruption ==
    [][ \A c \in Callers :
          MalformedRead(c) => callers'[c].loaded = <<>> /\ backups' > 0 ]_vars

\* C24: saving a ticket with the record it already has leaves the mapping as
\* it was after the first save, with one entry for the ticket; removing an
\* absent ticket leaves the mapping unchanged, and the file untouched.
C24_Idempotent ==
    /\ \A t \in Tickets : \A d \in StoreData :
         LET once == save_trade_state(_load_state, t, d)
         IN /\ save_trade_state(once, t, d) = once
            /\ Cardinality({k \in DOMAIN once : int(k) = t}) = 1
            /\ get_trade_state(once, t) = d
    /\ \A t \in Tickets :
         str(t) \notin DOMAIN _load_state =>
           clear_trade_state(_load_state, t) = _load_state
    /\ \A c \in Callers :
         LET o == callers[c] IN
         /\ (o.op = "save" /\ get_trade_state(o.loaded, o.ticket) = o.data) =>
               o.state = o.loaded
         /\ (o.op = "clear" /\ str(o.ticket) \notin DOMAIN o.loaded) =>
               o.state = o.loaded /\ o.at = "returned"

\* one caller has saved a ticket that already had that record and the file
\* holds what it held before; the other has removed an absent ticket
C24_Witness ==
    /\ content = "json" /\ fileExists
    /\ \E c \in Callers : \E d \in Callers \ {c} :
         /\ callers[c].at = "returned" /\ callers[c].op = "save"
         /\ get_trade_state(callers[c].loaded, callers[c].ticket) = callers[c].data
         /\ store = callers[c].loaded
         /\ callers[d].at = "returned" /\ callers[d].op = "clear"
         /\ str(callers[d].ticket) \notin DOMAIN store

\* ------------------------------------------------------------ trailing stop
\* the step that runs the trailing rule
TrailStep == pc = "exits" /\ pc' = "ladder"

\* long position t is open and the step computes a candidate stop for it
LongCandidate(t) ==
    /\ pos[t].st = "open" /\ pos[t].type = "BUY"
    /\ slReq'[t] # <<>>

\* C25 as stated: for a long position a candidate not above the stop leaves the
\* stop where it is, and a candidate above the stop becomes the stop in that
\* tick, so that along increasing candidates the stop equals the latest one.
C25_StopFollowsCandidates ==
    [][ TrailStep =>
          \A t \in Tickets : LongCandidate(t) =>
            LET cand == slReq'[t].cand
                old == pos[t].sl
            IN /\ cand <= old => pos'[t].sl = old
               /\ cand > old => pos'[t].sl = cand ]_vars

\* C25 amended: a candidate not above the stop leaves the stop where it is and
\* no modify is requested; a candidate above the stop is requested once, and
\* becomes the stop in that tick exactly when the broker accepts the request;
\* a rejected request leaves the stop where it is.
C25_StopFollowsAccepted ==
    [][ TrailStep =>
          \A t \in Tickets : LongCandidate(t) =>
            LET cand == slReq'[t].cand
                old == pos[t].sl
                reqs == {i \in EffectIndex(effects', {"modify_sl"}) :
                            effects'[i].arg = t}
            IN /\ cand <= old => reqs = {} /\ pos'[t].sl = old
               /\ cand > old =>
                    /\ Cardinality(reqs) = 1
                    /\ \A i \in reqs :
                         /\ effects'[i].val = cand
                         /\ effects'[i].ok => pos'[t].sl = cand
                         /\ ~effects'[i].ok => pos'[t].sl = old ]_vars

\* a long position whose stop was already set has been raised to a higher
\* candidate, accepted by the broker
C25_Witness ==
    /\ pc = "ladder"
    /\ \E t \in Tickets :
         /\ pos[t].st = "open" /\ pos[t].type = "BUY"
         /\ slReq[t] # <<>> /\ slReq[t].old > 0
         /\ slReq[t].cand > slReq[t].old
         /\ pos[t].sl = slReq[t].cand
         /\ \E i \in EffectIndex(effects, {"modify_sl"}) :
              effects[i].arg = t /\ effects[i].ok

\* ------------------------------------------------------------ entry inputs
InputOps == {"fetch_daily", "gann_levels", "get_current_price"}

\* an input of the new trade came back empty, null or as the 0.0 sentinel
InputMissing(e) == \E i \in EffectIndex(e, InputOps) : ~e[i].ok

\* C26: no daily candles (also what an invalid timeframe gives), too few days
\* and a non-positive reference price all give the empty ladder; when the
\* daily data, the ladder or the price is missing, the entry attempt sends no
\* open request, opens no position and writes no record, and logs the abort.
C26_InvalidInputSkipsEntry ==
    /\ [](\A d \in DailyData :
            (Len(d) < 2 \/ d[Len(d) - 1] <= 0) <=> calculate_gann_levels(d) = <<>>)
    /\ [][ (EntryStep /\ InputMissing(effects')) =>
             /\ EffectIndex(effects', OpenOps \cup {"save"}) = {}
             /\ EffectIndex(effects', {"log_abort"}) # {}
             /\ \A t \in Tickets : pos'[t].st = "open" => pos[t].st = "open"
             /\ store' = store /\ fileExists' = fileExists ]_vars

\* a reversal whose close went through and whose new trade was abandoned for
\* want of a ladder: nothing is open and nothing was recorded for a new trade
C26_Witness ==
    /\ pc = "sleep"
    /\ \E i \in EffectIndex(effects, {"close"}) :
         effects[i].ok /\ pos[effects[i].arg].st = "closed"
    /\ \E i \in EffectIndex(effects, {"gann_levels"}) : ~effects[i].ok
    /\ EffectIndex(effects, OpenOps) = {}
    /\ \A t \in Tickets : pos[t].st # "open"

\* --------------------------------------------------- order within a tick
\* the bot-owned positions open at the broker, in ticket order
BotOpenNow == SortedSeq({t \in Tickets : pos[t].st = "open" /\ pos[t].magic = "bot"})

InExitOrEntry == pc \in {"exits", "ladder", "entry"}

\* C27: the positions handed to exit control and entry logic are fetched after
\* closure detection and adoption of the same iteration have finished, they
\* are the broker's bot-owned positions of that moment (or none, when the
\* query failed), and nothing of them is kept for a later tick.
C27_FetchAfterReconciliation ==
    /\ [](/\ ~InExitOrEntry => bot_positions = <<>>
          /\ InExitOrEntry =>
               /\ closed_tickets = <<>>
               /\ \/ bot_positions = BotOpenNow
                  \/ Faulty /\ bot_positions = <<>>)
    /\ [][ /\ (pc' = "market" /\ pc # "market") =>
                 pc = "sync" /\ closed_tickets = <<>>
           /\ (pc' = "sync" /\ pc # "sync") => pc \in {"start", "closure", "clear"}
           /\ (InExitOrEntry' /\ ~InExitOrEntry) => pc = "market"
           /\ bot_positions' # bot_positions =>
                 \/ pc = "market" /\ InExitOrEntry'
                 \/ bot_positions' = <<>> ]_vars

\* exit control is about to run on the bot-owned positions fetched in this
\* iteration, with an adopted manual position left out
C27_Witness ==
    /\ pc = "exits" /\ bot_positions # <<>>
    /\ bot_positions = BotOpenNow
    /\ \E t \in Tickets : pos[t].st = "open" /\ pos[t].magic # "bot" /\ Managed(t)

\* C28: an iteration that finds the market closed has run closure detection
\* and adoption before, and then fetches no candle, runs neither exit nor
\* entry control, opens, closes and modifies no position, writes no record
\* and leaves the last-seen candle marker unchanged; it sleeps and restarts.
C28_MarketClosedSkipsTrading ==
    [][ /\ (pc = "market" /\ EffectIndex(effects', {"log_market_closed"}) # {}) =>
             /\ pc' = "sleep"
             /\ EffectIndex(effects', {"fetch_candle"} \cup RequestOps) = {}
             /\ current_candle_timestamp' = 0 /\ bot_positions' = <<>>
             /\ pos' = pos /\ store' = store /\ fileExists' = fileExists
             /\ last_candle_timestamp' = last_candle_timestamp
        /\ (pc' = "market" /\ pc # "market") => pc = "sync"
        /\ (pc = "sleep" /\ pc' # "sleep") => pc' \in {"start", "off"} ]_vars

\* the market is closed while a bot-owned position is open and a new candle
\* is waiting: the iteration has gone to sleep without touching either
C28_Witness ==
    /\ pc = "sleep"
    /\ EffectIndex(effects, {"log_market_closed"}) # {}
    /\ BotOwnedOpen
    /\ last_candle_timestamp # 0 /\ last_candle_timestamp < candle

\* ------------------------------------------------------------ price ladder
\* a sequence of levels is strictly increasing, strictly decreasing
Increasing(q) == \A i \in 1..(Len(q) - 1) : q[i] < q[i + 1]
Decreasing(q) == \A i \in 1..(Len(q) - 1) : q[i] > q[i + 1]

\* C29: for every positive reference price the buy-side levels entry,
\* target_1, ..., target_8 are strictly increasing and above the reference
\* price, and the sell-side levels are strictly decreasing and below it.
C29_LadderMonotonic ==
    (levels # <<>> /\ levels[1] # <<>>) =>
      LET reference_price == daily[Len(daily) - 1] * daily[Len(daily) - 1]
          buy == <<levels[1].buy_side.entry>> \o levels[1].buy_side.target
          sell == <<levels[1].sell_side.entry>> \o levels[1].sell_side.target
      IN /\ Increasing(buy)
         /\ \A i \in 1..Len(buy) : buy[i] > reference_price
         /\ Decreasing(sell)
         /\ \A i \in 1..Len(sell) : sell[i] < reference_price

\* ------------------------------------------------------------------ startup
\* the step that runs initial_cleanup and starts the loop
StartupStep == proc = "down" /\ proc' = "up"

AnyOpen == \E t \in Tickets : pos[t].st = "open"

\* C30: the startup cleanup deletes the state file only when it exists and no
\* position is open; when at least one position is open the file and all its
\* records are left unchanged, and a file that does not exist is not created.
C30_CleanupFrame ==
    [][ StartupStep =>
          /\ AnyOpen => fileExists' = fileExists /\ store' = store
          /\ (fileExists /\ ~fileExists') => ~AnyOpen
          /\ ~fileExists => ~fileExists' ]_vars

\* ------------------------------------------------------- one position at most
BotOpenSet == {t \in Tickets : pos[t].st = "open" /\ pos[t].magic = "bot"}

\* C31: at most one bot-owned position is open at any time, and an open
\* request is sent only when no bot-owned position is open or, in a reversal,
\* after the close of the existing position went through; stated for the runs
\* in which every position query is answered.
C31_OneBotPosition ==
    /\ [](~Faulty => Cardinality(BotOpenSet) <= 1)
    /\ [][ (~Faulty /\ EntryStep /\ EffectIndex(effects', OpenOps) # {}) =>
             \/ BotOpenSet = {}
             \/ \E i \in EffectIndex(effects', {"close"}) :
                  effects'[i].ok /\ BotOpenSet = {effects'[i].arg} ]_vars

\* ------------------------------------------------ open positions stay managed
\* a step of closure detection
ClosureDetectionStep == pc \in {"start", "closure", "clear"} /\ proc' = "up"

\* C32: closure detection never finalizes a managed position that is still
\* open, not even when the position query failed and the ticket is taken for
\* closed: no trade record, no win/loss alert, and the ticket stays managed.
C32_OpenNeverFinalized ==
    [][ ClosureDetectionStep =>
          \A t \in Tickets :
            (Managed(t) /\ pos[t].st = "open") =>
              /\ Managed(t)' /\ store'[str(t)] = store[str(t)]
              /\ report'[t] = report[t]
              /\ emitted'[t] = emitted[t]
              /\ winLoss'[t] = winLoss[t] ]_vars

\* the position query failed, an open managed position was examined as a
\* closed one and its history retries ran out: nothing was emitted for it
C32_Witness ==
    \E t \in Tickets :
        /\ pos[t].st = "open" /\ Managed(t)
        /\ last_ticket = t /\ queries = MaxAttempts /\ t \in exhausted
        /\ emitted[t] = 0 /\ report[t] = <<>>


\* ------------------------------------------------------ unwritten records
\* the step of closure detection that removes the first closed ticket
\* (main.py:158)
RemovalStep == proc = "up" /\ pc = "clear" /\ pc' # "clear" /\ proc' = "up"

\* C33: closure detection removes a ticket from the state store only if its
\* trade record was actually appended to the report: a ticket whose append
\* failed is still in the store afterwards.
C33_RemovedOnlyIfAppended ==
    [][ RemovalStep =>
          \A t \in Tickets :
            (Managed(t) /\ ~Managed(t)') => Len(report[t]) > 0 ]_vars


\* ----------------------------------------------- stored take-profit level
\* the record of ticket t in state agrees with the broker's take-profit of
\* position P[t], within the tolerance the code compares prices with
TpAgrees(state, P, t) == Abs(state[str(t)].tp_level - P[t].tp) <= Tolerance256

\* C34: a record written by adoption or by an entry open carries the
\* take-profit the broker holds for that position, whether the adoption's
\* modify request succeeded, failed or was skipped.
C34_StoredTpIsBrokerTp ==
    [][ (SyncStep \/ EntryStep) =>
          \A t \in Tickets :
            (~Managed(t) /\ Managed(t)' /\ pos'[t].st = "open") =>
               TpAgrees(store', pos', t) ]_vars


\* -------------------------------------------------- positions without stop
\* position t is open without a stop and the step computes a candidate stop
\* for it, which it does only for a position in profit
StoplessCandidate(t) ==
    /\ pos[t].st = "open" /\ pos[t].sl = 0
    /\ slReq'[t] # <<>> /\ slReq'[t] # slReq[t]

\* C35: under the trailing-stop rule a position in profit whose stop is 0.0
\* (none) has the candidate requested as its stop on that tick, short
\* positions as well as long ones.
C35_StoplessGetsStop ==
    [][ TrailStep =>
          \A t \in Tickets :
            StoplessCandidate(t) =>
              \E i \in EffectIndex(effects', {"modify_sl"}) :
                 effects'[i].arg = t /\ effects'[i].val = slReq'[t].cand ]_vars


\* ------------------------------------------------- other tickets' records
\* caller c ends a write while no other caller has run since the round began
DumpAlone(c) ==
    /\ callers[c].at = "writing" /\ callers'[c].at = "returned"
    /\ \A d \in Callers \ {c} : callers[d].at = "idle"

\* caller c runs an operation that returns without writing: get_trade_state,
\* or clear_trade_state of an absent ticket
ReadOnlyCall(c) == callers[c].at = "idle" /\ callers'[c].at = "returned"

\* the records of all tickets but ticket are the same in mappings a and b
SameOthers(a, b, ticket) ==
    \A t \in Tickets \ {ticket} :
        /\ str(t) \in DOMAIN a <=> str(t) \in DOMAIN b
        /\ str(t) \in DOMAIN a => a[str(t)] = b[str(t)]

\* C36: a save or a removal of one ticket's record leaves the records of all
\* other tickets as they were in the file when the operation began, and an
\* operation that only reads leaves the file as it is.
C36_OthersUnchanged ==
    [][ \A c \in Callers :
          /\ DumpAlone(c) =>
                /\ content' = "json"
                /\ SameOthers(roundStart, store', callers[c].ticket)
          /\ ReadOnlyCall(c) =>
                /\ store' = store /\ content' = content
                /\ fileExists' = fileExists ]_vars

\* a save or a removal of one ticket has been written while the record of
\* the other ticket was in the file, and that record is still there unchanged
C36_Witness ==
    \E c \in Callers : \E t \in Tickets \ {callers[c].ticket} :
        /\ callers[c].at = "returned" /\ callers[c].op \in {"save", "clear"}
        /\ \A d \in Callers \ {c} : callers[d].at = "idle"
        /\ callers[c].state # callers[c].loaded
        /\ content = "json" /\ store = callers[c].state
        /\ str(t) \in DOMAIN roundStart /\ str(t) \in DOMAIN store
        /\ store[str(t)] = roundStart[str(t)]


\* ------------------------------------------------- what a modify changes
\* the requests with operation op of effects e that the broker accepted for
\* ticket t
Accepted(e, op, t) == {i \in EffectIndex(e, {op}) : e[i].arg = t /\ e[i].ok}

\* C37: a modify of the trailing-stop rule changes the stop of its position
\* and nothing else, a modify of adoption changes the take-profit of its
\* position and nothing else, and a position for which the broker accepted no
\* request is left as it was.
C37_ModifyFrame ==
    [][ /\ TrailStep =>
            \A t \in Tickets :
              /\ pos'[t].tp = pos[t].tp
              /\ pos'[t] # pos[t] =>
                    \E i \in Accepted(effects', "modify_sl", t) :
                       pos'[t] = [pos[t] EXCEPT !.sl = effects'[i].val]
        /\ SyncStep =>
            \A t \in Tickets :
              /\ pos'[t].sl = pos[t].sl
              /\ pos'[t] # pos[t] =>
                    \E i \in Accepted(effects', "modify", t) :
                       pos'[t] = [pos[t] EXCEPT !.tp = effects'[i].val] ]_vars

\* the trailing rule has just moved the stop of a position that keeps its
\* take-profit, while an adopted manual position, whose take-profit adoption
\* set and whose stop it kept, is open and was sent no request
C37_Witness ==
    \E t \in Tickets, u \in Tickets :
        /\ t # u /\ pc = "ladder"
        /\ pos[t].st = "open" /\ pos[u].st = "open"
        /\ \E i \in Accepted(effects, "modify_sl", t) : pos[t].sl = effects[i].val
        /\ pos[t].tp # 0
        /\ EffectIndex(effects, {"modify_sl"}) = Accepted(effects, "modify_sl", t)
        /\ pos[u].magic = "manual" /\ Managed(u)
        /\ store[str(u)].entry_type = "Adopted/Manual"
        /\ store[str(u)].tp_level = pos[u].tp /\ pos[u].tp \notin ManualTPs
        /\ pos[u].sl = store[str(u)].sl_level /\ pos[u].sl # 0


\* ------------------------------------------------------ concurrent writers
\* no reporter call is running
AllWritersIdle == \A w \in Writers : writers[w].at = "idle"

\* C38: once all concurrent log_activity and log_trade calls on the report
\* sink have returned, the report holds one activity row for every
\* log_activity call and one trade row for every log_trade call that returned
\* without a save failure: no row is lost.
C38_NoLostRow ==
    AllWritersIdle =>
        /\ Len(activity) = returned.log_activity
        /\ \A t \in Tickets : Len(report[t]) = returned.log_trade[t]

\* a log_trade call and a log_activity call of the second writer have both
\* returned after a successful save, and both rows are in the report
C38_Witness ==
    /\ AllWritersIdle
    /\ returned.log_activity >= 1
    /\ \E t \in Tickets : returned.log_trade[t] >= 1 /\ Len(report[t]) >= 1
    /\ \E i \in 1..Len(activity) : activity[i] = 2

====
